---------------------------- MODULE Spec2Model ----------------------------
(***************************************************************************)
(* A model of autoimpute's BaseImputer (column classification, one-hot     *)
(* encoding, scaling, strategy / predictor resolution, design-matrix       *)
(* assembly) and of the MedianImputer / RandomImputer fit-impute           *)
(* lifecycle.                                                              *)
(*                                                                         *)
(* A pandas DataFrame is a record [index, columns]: the row index is a     *)
(* sequence of row labels, the columns a sequence of [label, orig], where  *)
(* label is the column label pandas selects by and orig is the dataset     *)
(* column the data of that column was derived from.  A Python value is a   *)
(* record tagged with its type t: a str [t, s], a list or tuple [t, l], a  *)
(* dict [t, d] with d its set of items [k, val].                           *)
(***************************************************************************)
EXTENDS Integers, Sequences, FiniteSets, TLC

VARIABLES
    X,        \* the dataset handed to _prep_fit_dataframe
    self,     \* the BaseImputer instance's attributes
    pc,       \* "new" | "prepped" | "scaled": which private methods have run
    ret,      \* the last _prep_predictor_cols call: arguments, locals, outcome
    cols,     \* the column list handed to check_strategy_fit / check_predictors_fit
    arg,      \* the caller's spec object (a dict is mutated in place)
    res,      \* the last resolver call and its outcome
    imp,      \* a MedianImputer / RandomImputer instance
    last,     \* the last call made on imp and its outcome
    ncalls,   \* number of calls made on imp
    fit_done, \* history: some fit on imp has completed without raising
    fit_raised \* history: some fit on imp has raised

baseVars == <<X, self, pc, ret>>
resolverVars == <<cols, arg, res>>
imputerVars == <<imp, last, ncalls, fit_done, fit_raised>>
vars == <<X, self, pc, ret, cols, arg, res, imp, last, ncalls, fit_done, fit_raised>>

-----------------------------------------------------------------------------
(* Bounds of the model. *)

MaxCols == 3
MaxRows == 2
MaxPreds == 2

(* Column names, category values and dtypes the datasets are built from.   *)
ColNames == {"A", "A_b", "B"}
Cats == {"b_x", "x"}
\* sorted(Cats), the order pd.get_dummies gives its levels
CatOrder == <<"b_x", "x">>
\* "bool" stands for every dtype that is neither number, datetime64 nor object
Dtypes == {"number", "datetime", "object", "bool"}

-----------------------------------------------------------------------------
(* Sequences and sets. *)

Range(s) == {s[i] : i \in DOMAIN s}

\* every ordering of a finite set: what list(set(...)) may return
Orderings(S) ==
    {s \in [1..Cardinality(S) -> S] : \A i, j \in 1..Cardinality(S) : i # j => s[i] # s[j]}

\* sequences without repetition over S, of length lo..hi
DistinctSeqs(S, lo, hi) ==
    UNION {{s \in [1..n -> S] : \A i, j \in 1..n : i # j => s[i] # s[j]} : n \in lo..hi}

\* the sorted sequence of a finite set of integers
SortedSeq(S) ==
    CHOOSE s \in [1..Cardinality(S) -> S] :
        \A i, j \in 1..Cardinality(S) : i < j => s[i] < s[j]

RECURSIVE Flatten(_)
Flatten(ss) == IF ss = <<>> THEN <<>> ELSE Head(ss) \o Flatten(Tail(ss))

-----------------------------------------------------------------------------
(* pandas. *)

\* pd.DataFrame(): no rows, no columns
EmptyFrame == [index |-> <<>>, columns |-> <<>>]

\* pd.RangeIndex(n): the index a DataFrame built from a bare array gets
RangeIndex(n) == [i \in 1..n |-> i - 1]

Labels(df) == [i \in DOMAIN df.columns |-> df.columns[i].label]

\* df.size
Size(df) == Len(df.index) * Len(df.columns)

\* df.drop(c, axis=1): every column labelled c goes
Drop(df, c) ==
    [df EXCEPT !.columns = SelectSeq(df.columns, LAMBDA col : col.label # c)]

\* df[keys]: for each key in turn, every column carrying that label
RECURSIVE ColsOf(_, _)
ColsOf(df, keys) ==
    IF keys = <<>> THEN <<>>
    ELSE SelectSeq(df.columns, LAMBDA col : col.label = Head(keys))
         \o ColsOf(df, Tail(keys))

GetItem(df, keys) == [df EXCEPT !.columns = ColsOf(df, keys)]

\* X.select_dtypes(include=(dt,)): the columns of that dtype, in dataset order
SelectDtypes(ds, dt) ==
    LET keep == SelectSeq(ds.columns, LAMBDA col : col.dtype = dt)
    IN  [index |-> ds.index,
         columns |-> [i \in DOMAIN keep |-> [label |-> keep[i].name, orig |-> keep[i].name]]]

\* pd.get_dummies(series, prefix=col): one indicator per observed category,
\* labelled prefix + "_" + category, categories in sorted order
GetDummies(ds, col) ==
    LET levels == SelectSeq(CatOrder, LAMBDA v : v \in col.cats)
    IN  [index |-> ds.index,
         columns |-> [i \in DOMAIN levels |->
                        [label |-> col.name \o "_" \o levels[i], orig |-> col.name]]]

\* pd.concat(frames, axis=1) of a non-empty list: columns side by side, rows
\* aligned on the union of the row indexes
Concat(frames) ==
    LET idxs == {frames[i].index : i \in DOMAIN frames}
    IN  [index |-> IF Cardinality(idxs) = 1 THEN frames[1].index
                   ELSE SortedSeq(UNION {Range(ix) : ix \in idxs}),
         columns |-> Flatten([i \in DOMAIN frames |-> frames[i].columns])]

-----------------------------------------------------------------------------
(* Datasets. *)

\* what a column of a dataset with n rows may hold: a dtype and, for an object
\* column, the categories observed in it (at most one per row)
ColumnKinds(n) ==
    {kd \in [dtype : Dtypes, cats : SUBSET Cats] :
        /\ kd.dtype # "object" => kd.cats = {}
        /\ Cardinality(kd.cats) <= n}

\* the row indexes of at most n rows
Indexes(n) == DistinctSeqs(0..(n - 1), 0, n)

\* the datasets of at most maxCols uniquely named columns and maxRows rows
Datasets(maxCols, maxRows) ==
    UNION {{[index |-> idx,
             columns |-> [i \in DOMAIN names |->
                            [name |-> names[i], dtype |-> kinds[i].dtype,
                             cats |-> kinds[i].cats]]] :
               kinds \in [DOMAIN names -> ColumnKinds(Len(idx))]} :
           names \in DistinctSeqs(ColNames, 1, maxCols), idx \in Indexes(maxRows)}

Names(ds) == [i \in DOMAIN ds.columns |-> ds.columns[i].name]

-----------------------------------------------------------------------------
(* BaseImputer: fit preparation. *)

Unprepared ==
    [_X_idx |-> <<>>, data_mi |-> EmptyFrame,
     _data_num |-> EmptyFrame, _cols_num |-> <<>>, _len_num |-> 0,
     _data_time |-> EmptyFrame, _cols_time |-> <<>>, _len_time |-> 0,
     _orig_dum |-> <<>>, _dum_dict |-> <<>>,
     _data_dum |-> EmptyFrame, _cols_dum |-> <<>>, _len_dum |-> 0,
     _scaled_num |-> "None", _scaled_dum |-> "None"]

\* the dtype the categorical columns are selected by
CategoricalDtype == "object"

\* the one-hot frames of the categorical columns, or pd.DataFrame() for none
DummyFrame(ds, orig_dum) ==
    LET dummies == [i \in DOMAIN orig_dum.columns |->
                      GetDummies(ds, CHOOSE col \in Range(ds.columns) :
                                        col.name = orig_dum.columns[i].label)]
    IN  IF orig_dum.columns = <<>> THEN EmptyFrame
        ELSE IF Len(dummies) = 1 THEN dummies[1]
        ELSE Concat(dummies)

_prep_fit_dataframe(s, ds) ==
    LET data_num == SelectDtypes(ds, "number")
        data_time == SelectDtypes(ds, "datetime")
        orig_dum == SelectDtypes(ds, CategoricalDtype)
        data_dum == DummyFrame(ds, orig_dum)
    IN  [s EXCEPT
           !._X_idx = ds.index,
           !.data_mi = [index |-> ds.index,
                        columns |-> [i \in DOMAIN ds.columns |->
                           [label |-> ds.columns[i].name, orig |-> ds.columns[i].name]]],
           !._data_num = data_num,
           !._cols_num = Labels(data_num),
           !._len_num = Len(data_num.columns),
           !._data_time = data_time,
           !._cols_time = Labels(data_time),
           !._len_time = Len(data_time.columns),
           !._orig_dum = Labels(orig_dum),
           !._dum_dict = [i \in DOMAIN orig_dum.columns |->
                            [k |-> orig_dum.columns[i].label,
                             v |-> Labels(GetDummies(ds,
                                     CHOOSE col \in Range(ds.columns) :
                                        col.name = orig_dum.columns[i].label))]],
           !._data_dum = data_dum,
           !._cols_dum = Labels(data_dum),
           !._len_dum = Len(data_dum.columns)]


-----------------------------------------------------------------------------
(* BaseImputer: scaling.  The scaler is a fitted sklearn transformer; it    *)
(* maps an array to an array of the same shape.                             *)

_scaler_fit(s) ==
    [s EXCEPT
       !._scaled_num = IF s._len_num > 0 THEN "fitted" ELSE "None",
       !._scaled_dum = IF s._len_dum > 0 THEN "fitted" ELSE "None"]

\* pd.DataFrame(array, columns=labels): the array's columns under the given
\* labels, on a fresh RangeIndex
FrameOfArray(df, labels) ==
    [index |-> RangeIndex(Len(df.index)),
     columns |-> [i \in DOMAIN df.columns |->
                    [label |-> labels[i], orig |-> df.columns[i].orig]]]

_scaler_transform(s) ==
    LET s1 == IF s._scaled_num # "None"
              THEN [s EXCEPT !._data_num = FrameOfArray(s._data_num, s._cols_num)]
              ELSE s
    IN  IF s1._scaled_dum # "None"
        THEN [s1 EXCEPT !._data_dum = FrameOfArray(s1._data_dum, s1._cols_dum)]
        ELSE s1

_scaler_fit_transform(s) == _scaler_transform(_scaler_fit(s))

-----------------------------------------------------------------------------
(* BaseImputer: predictor assembly. *)

InSeq(x, s) == \E i \in DOMAIN s : s[i] = x

\* the indicator columns to select, given the keys of _dum_dict whose groups
\* are kept: d_c, d_fc and d of the source
DummyLabels(s, kept) ==
    LET d_c == SelectSeq(s._dum_dict, LAMBDA kv : kv.k \in kept)
        d_fc == Flatten([i \in DOMAIN d_c |-> d_c[i].v])
    IN  SelectSeq(Labels(s._data_dum), LAMBDA k : InSeq(k, d_fc))

_use_all_cols(s, c) ==
    LET num_cols == IF InSeq(c, s._cols_num) THEN Drop(s._data_num, c)
                    ELSE s._data_num
        dum_cols == IF InSeq(c, s._orig_dum)
                    THEN GetItem(s._data_dum,
                                 DummyLabels(s, {k \in Range(s._orig_dum) : k # c}))
                    ELSE s._data_dum
    IN  <<num_cols, dum_cols, s._data_time>>

\* the numeric frame the explicit predictors are intersected with
NumCandidates(s, c) ==
    IF InSeq(c, s._cols_num) THEN Drop(s._data_num, c) ELSE s._data_num

\* list(set(preds).intersection(labels)) returns the labels in labels that
\* preds names, in an order Python does not fix: numOrder and timeOrder are
\* the orders the two set-to-list conversions produced
_use_iter_cols(s, c, preds, numOrder, timeOrder) ==
    LET cn == NumCandidates(s, c)
        num_cols == GetItem(cn, numOrder)
        d == IF InSeq(c, s._orig_dum)
             THEN DummyLabels(s, {k \in Range(s._orig_dum) : k # c /\ InSeq(k, preds)})
             ELSE DummyLabels(s, {k \in Range(s._orig_dum) : InSeq(k, preds)})
        dum_cols == GetItem(s._data_dum, d)
        time_cols == GetItem(s._data_time, timeOrder)
    IN  <<num_cols, dum_cols, time_cols>>

\* the outcomes of list(set(preds).intersection(df.columns.tolist()))
SetOrders(preds, df) == Orderings(Range(preds) \cap Range(Labels(df)))

NoRet ==
    [kind |-> "none", c |-> "", preds |-> [t |-> "str", s |-> ""],
     num |-> EmptyFrame, dum |-> EmptyFrame, time |-> EmptyFrame,
     x |-> EmptyFrame, y |-> [name |-> "", index |-> <<>>], err |-> ""]

\* _prep_predictor_cols from line 399 on: the blocks are selected
AssembleBlocks(s, c, preds, blocks) ==
    LET predictors == SelectSeq(blocks, LAMBDA p : Size(p) > 0)
        base == [NoRet EXCEPT !.c = c, !.preds = preds, !.num = blocks[1],
                              !.dum = blocks[2], !.time = blocks[3]]
    IN  IF \A i \in 1..3 : blocks[i].columns = <<>>
        THEN [base EXCEPT !.kind = "raise",
                          !.err = "ValueError: Need at least one predictor column"]
        ELSE IF predictors = <<>>
        THEN [base EXCEPT !.kind = "raise",
                          !.err = "ValueError: No objects to concatenate"]
        ELSE [base EXCEPT !.kind = "return",
                          !.x = Concat(predictors),
                          !.y = [name |-> c, index |-> s.data_mi.index]]

\* a resolved predictor entry for a dataset: "all", one column name, or a
\* list of column names
PredEntries(ds) ==
    {[t |-> "str", s |-> "all"]}
    \cup {[t |-> "str", s |-> n] : n \in Range(Names(ds))}
    \cup {[t |-> "list", l |-> q] : q \in DistinctSeqs(Range(Names(ds)), 0, MaxPreds)}

-----------------------------------------------------------------------------
(* The actions on a BaseImputer.  A behaviour prepares the dataset,        *)
(* optionally scales it, and assembles one design matrix; assembling       *)
(* changes no attribute, so a later assembly starts from the same state.   *)

PrepFitDataframe ==
    /\ pc = "new"
    /\ self' = _prep_fit_dataframe(self, X)
    /\ pc' = "prepped"
    /\ UNCHANGED <<X, ret, resolverVars, imputerVars>>

\* sklearn scalers refuse an array without rows, so the scaler step is taken
\* on datasets that have rows
ScalerFitTransform ==
    /\ pc = "prepped"
    /\ ret.kind = "none"
    /\ Len(X.index) > 0
    /\ self' = _scaler_fit_transform(self)
    /\ pc' = "scaled"
    /\ UNCHANGED <<X, ret, resolverVars, imputerVars>>

PrepPredictorColsAll ==
    /\ pc \in {"prepped", "scaled"}
    /\ ret.kind = "none"
    /\ \E c \in Range(Names(X)) :
          ret' = AssembleBlocks(self, c, [t |-> "str", s |-> "all"],
                                _use_all_cols(self, c))
    /\ UNCHANGED <<X, self, pc, resolverVars, imputerVars>>

PrepPredictorColsIter ==
    /\ pc \in {"prepped", "scaled"}
    /\ ret.kind = "none"
    /\ \E c \in Range(Names(X)) :
       \E entry \in PredEntries(X) \ {[t |-> "str", s |-> "all"]} :
          LET preds == IF entry.t = "str" THEN <<entry.s>> ELSE entry.l
          IN  \E numOrder \in SetOrders(preds, NumCandidates(self, c)) :
              \E timeOrder \in SetOrders(preds, self._data_time) :
                 ret' = AssembleBlocks(self, c, entry,
                           _use_iter_cols(self, c, preds, numOrder, timeOrder))
    /\ UNCHANGED <<X, self, pc, resolverVars, imputerVars>>


-----------------------------------------------------------------------------
(* Python values handed to the resolvers. *)

MaxList == 3
MaxKeys == 2

PyNone == [t |-> "NoneType"]
PyInt == [t |-> "int", i |-> 0]
PyStr(x) == [t |-> "str", s |-> x]
PyDict(items) == [t |-> "dict", d |-> items]
PySeq(type, items) == [t |-> type, l |-> items]

IsStr(p) == p.t = "str"
IsListOrTuple(p) == p.t \in {"list", "tuple"}
IsDict(p) == p.t = "dict"

Keys(p) == {it.k : it \in p.d}
Get(p, k) == (CHOOSE it \in p.d : it.k = k).val

\* {c: value for c in cols}
Broadcast(cs, value) == PyDict({[k |-> cs[i], val |-> value] : i \in DOMAIN cs})

Zip_first(cs, s) ==
    PyDict({[k |-> cs[i], val |-> PyStr(s.l[1])] : i \in DOMAIN cs \cap DOMAIN s.l})

\* {c[0]: c[1] for c in zip(cols, s)}
Zip(cs, s) ==
    PyDict({[k |-> cs[i], val |-> PyStr(s.l[i])] : i \in DOMAIN cs \cap DOMAIN s.l})

\* the outcome of a call: what it returned or raised, whether the returned
\* object is the argument object itself, and the argument object afterwards
Returns(value, alias, after) ==
    [kind |-> "return", v |-> value, err |-> "", alias |-> alias, arg |-> after]
Raises(err, after) ==
    [kind |-> "raise", v |-> PyNone, err |-> err, alias |-> FALSE, arg |-> after]

\* lines 186-192: a dict whose keys are all columns is returned as it is
StrategyFromDict_completing(s, cs) ==
    IF Keys(s) \ Range(cs) # {}
    THEN Raises("ValueError: Keys of strategies and column names must match", s)
    ELSE Returns(PyDict(s.d \cup {[k |-> c, val |-> PyStr("mean")] :
                                     c \in Range(cs) \ Keys(s)}), FALSE, s)

StrategyFromDict(s, cs) ==
    IF Keys(s) \ Range(cs) # {}
    THEN Raises("ValueError: Keys of strategies and column names must match", s)
    ELSE Returns(s, TRUE, s)

check_strategy_fit(s, cs) ==
    IF IsStr(s) THEN Returns(Broadcast(cs, s), FALSE, s)
    ELSE IF IsListOrTuple(s)
    THEN IF Len(s.l) # Len(cs)
         THEN Raises("ValueError: Length of columns not equal to number of strategies", s)
         ELSE Returns(Zip(cs, s), FALSE, s)
    ELSE IF IsDict(s) THEN StrategyFromDict(s, cs)
    ELSE Returns(PyNone, FALSE, s)

\* [p for p in preds if p not in cols]
BadPreds(preds, cs) == SelectSeq(preds, LAMBDA p : ~InSeq(p, cs))

\* the check of one value of a predictor dict: "" when it passes
DictValueError(preds, cs) ==
    IF IsStr(preds)
    THEN IF preds.s # "all" /\ ~InSeq(preds.s, cs)
         THEN "ValueError: Invalid column as only predictor"
         ELSE ""
    ELSE IF IsListOrTuple(preds)
    THEN IF BadPreds(preds.l, cs) # <<>>
         THEN "ValueError: not a valid column in X"
         ELSE ""
    ELSE "ValueError: Values in predictor must be str, list, or tuple"

\* the error of the loop over predictors.items(): the one of the first item
\* that fails (the items are met in the dict's insertion order, which the item
\* set does not carry; every one of them is a ValueError)
FirstValueError(predictors, cs) ==
    DictValueError((CHOOSE it \in predictors.d : DictValueError(it.val, cs) # "").val, cs)

Complete_skip(predictors, cs) == predictors

\* for c in cols: if c not in predictors: predictors[c] = "all"
Complete(predictors, cs) ==
    PyDict(predictors.d \cup
           {[k |-> c, val |-> PyStr("all")] : c \in Range(cs) \ Keys(predictors)})

check_predictors_fit(predictors, cs) ==
    IF IsStr(predictors)
    THEN IF predictors.s # "all" /\ ~InSeq(predictors.s, cs)
         THEN Raises("ValueError: must be valid column in X", predictors)
         ELSE Returns(Broadcast(cs, predictors), FALSE, predictors)
    ELSE IF IsListOrTuple(predictors)
    THEN IF BadPreds(predictors.l, cs) # <<>>
         THEN Raises("ValueError: not a valid column in X", predictors)
         ELSE Returns(Broadcast(cs, predictors), FALSE, predictors)
    ELSE IF IsDict(predictors)
    THEN IF Keys(predictors) \ Range(cs) # {}
         THEN Raises("ValueError: Keys of strategies and column names must match",
                     predictors)
         ELSE IF \E it \in predictors.d : DictValueError(it.val, cs) # ""
         THEN Raises(FirstValueError(predictors, cs), predictors)
         ELSE Returns(Complete(predictors, cs), TRUE, Complete(predictors, cs))
    ELSE Returns(PyNone, FALSE, predictors)


-----------------------------------------------------------------------------
(* The specs the resolvers are called with. *)

Strategies == {"mean", "median"}
\* "Z" is the name of no column
PredNames == ColNames \cup {"Z"}

SeqsUpTo(S, n) == UNION {[1..k -> S] : k \in 0..n}

OtherSpecs == {PyNone, PyInt}

\* the item sets of the dicts with a key set in keySets and values in vals
DictItems(keySets, vals) ==
    UNION {{{[k |-> key, val |-> f[key]] : key \in ks} : f \in [ks -> vals]} :
           ks \in keySets}

StrategySpecs ==
    {PyStr(x) : x \in Strategies}
    \cup {PySeq(k, q) : k \in {"list", "tuple"}, q \in SeqsUpTo(Strategies, MaxList)}
    \cup {PyDict(items) : items \in DictItems(SUBSET PredNames, {PyStr(x) : x \in Strategies})}
    \cup OtherSpecs

\* the values of a predictor dict: a string, a short list, or something else
DictVals ==
    {PyStr(x) : x \in {"all"} \cup PredNames}
    \cup {PySeq("list", q) : q \in SeqsUpTo(PredNames, 1)}
    \cup {PyNone}

PredictorSpecs ==
    {PyStr(x) : x \in {"all"} \cup PredNames}
    \cup {PySeq(k, q) : k \in {"list", "tuple"}, q \in SeqsUpTo(PredNames, MaxPreds)}
    \cup {PyDict(items) : items \in
            DictItems({ks \in SUBSET PredNames : Cardinality(ks) <= MaxKeys}, DictVals)}
    \cup OtherSpecs

NoRes == [op |-> "none", kind |-> "none", v |-> PyNone, err |-> "", alias |-> FALSE,
          given |-> PyNone]

\* a call of a resolver: the caller's object as given, the outcome, and the
\* caller's object afterwards
CheckStrategyFit ==
    /\ res.op = "none"
    /\ \E s \in StrategySpecs :
          LET out == check_strategy_fit(s, cols)
          IN  /\ res' = [op |-> "check_strategy_fit", kind |-> out.kind, v |-> out.v,
                         err |-> out.err, alias |-> out.alias, given |-> s]
              /\ arg' = out.arg
    /\ UNCHANGED <<baseVars, cols, imputerVars>>

CheckPredictorsFit ==
    /\ res.op = "none"
    /\ \E p \in PredictorSpecs :
          LET out == check_predictors_fit(p, cols)
          IN  /\ res' = [op |-> "check_predictors_fit", kind |-> out.kind, v |-> out.v,
                         err |-> out.err, alias |-> out.alias, given |-> p]
              /\ arg' = out.arg
    /\ UNCHANGED <<baseVars, cols, imputerVars>>


-----------------------------------------------------------------------------
(* MedianImputer and RandomImputer.  A Series is its dtype and its cells;   *)
(* a cell is missing (na) or holds a number.                                *)

MaxLen == 2
MaxCalls == 3

\* the numbers the series hold
Vals == {1, 2}

NaN == [na |-> TRUE, x |-> 0]
Num(n) == [na |-> FALSE, x |-> n]
Cells == {NaN} \cup {Num(n) : n \in Vals}

SeriesSet == [dtype : {"number", "object"}, values : SeqsUpTo(Cells, MaxLen)]

\* X[~X.isnull()]
Observed(S) == SelectSeq(S.values, LAMBDA cell : ~cell.na)
\* X[X.isnull()]
Missing(S) == SelectSeq(S.values, LAMBDA cell : cell.na)

\* the values of a sequence of cells in non-decreasing order
Sorted(cells) ==
    CHOOSE s \in [DOMAIN cells -> {cells[i].x : i \in DOMAIN cells}] :
        /\ \A i, j \in DOMAIN cells : i < j => s[i] <= s[j]
        /\ \A v \in {cells[i].x : i \in DOMAIN cells} :
              Cardinality({i \in DOMAIN cells : s[i] = v})
                 = Cardinality({i \in DOMAIN cells : cells[i].x = v})

\* X.median(): the median of the observed values as a fraction, NaN for none
Median(S) ==
    LET o == Sorted(Observed(S))
        n == Len(o)
        twice == IF n % 2 = 1 THEN 2 * o[(n + 1) \div 2]
                 ELSE o[n \div 2] + o[n \div 2 + 1]
    IN  IF n = 0 THEN [na |-> TRUE, num |-> 0, den |-> 1]
        ELSE IF twice % 2 = 0 THEN [na |-> FALSE, num |-> twice \div 2, den |-> 1]
        ELSE [na |-> FALSE, num |-> twice, den |-> 2]

Unset == [t |-> "unset"]
NewImputer(kind) == [kind |-> kind, statistics_ |-> Unset]

\* autoimpute.imputations.errors._not_num_series: a series that is not of a
\* numeric dtype is refused
_not_num_series(S) == S.dtype # "number"

\* sklearn's check_is_fitted(self, "statistics_"): the attribute must exist
check_is_fitted(m) == m.statistics_ # Unset

Outcome(m, kind, err, v) == [imp |-> m, kind |-> kind, err |-> err, v |-> v]
SelfValue == [t |-> "self"]
NoValue == [t |-> "none"]

median_fit_eager(m, S) ==
    LET fitted == [m EXCEPT !.statistics_ =
                     [t |-> "dict", param |-> [t |-> "float", f |-> Median(S)],
                      strategy |-> "median"]]
    IN  IF _not_num_series(S)
        THEN Outcome(fitted, "raise", "TypeError", NoValue)
        ELSE Outcome(fitted, "return", "", SelfValue)

median_fit(m, S) ==
    IF _not_num_series(S)
    THEN Outcome(m, "raise", "TypeError", NoValue)
    ELSE Outcome([m EXCEPT !.statistics_ =
                    [t |-> "dict", param |-> [t |-> "float", f |-> Median(S)],
                     strategy |-> "median"]],
                 "return", "", SelfValue)

median_impute(m, S) ==
    IF ~check_is_fitted(m) THEN Outcome(m, "raise", "NotFittedError", NoValue)
    ELSE IF _not_num_series(S) THEN Outcome(m, "raise", "TypeError", NoValue)
    ELSE Outcome(m, "return", "", m.statistics_.param)

\* random = list(set(X[~X.isnull()])): the observed values, once each, in
\* the order the set yields them
random_fit(m, S, order) ==
    Outcome([m EXCEPT !.statistics_ =
               [t |-> "dict", param |-> [t |-> "list", l |-> order],
                strategy |-> "random"]],
            "return", "", SelfValue)

\* np.random.choice(param, len(ind)): draw is the sample; nothing can be
\* drawn from an empty param
random_impute(m, S, draw) ==
    IF ~check_is_fitted(m) THEN Outcome(m, "raise", "NotFittedError", NoValue)
    ELSE IF m.statistics_.param.l = <<>> /\ Len(Missing(S)) > 0
    THEN Outcome(m, "raise", "ValueError", NoValue)
    ELSE Outcome(m, "return", "", [t |-> "array", a |-> draw])

FitOutcomes(m, S) ==
    IF m.kind = "median" THEN {median_fit(m, S)}
    ELSE {random_fit(m, S, order) :
             order \in Orderings({cell.x : cell \in Range(Observed(S))})}

\* the samples of size n from the fitted param (none when unfitted)
Draws(m, n) ==
    IF check_is_fitted(m) /\ m.statistics_.param.l # <<>>
    THEN [1..n -> Range(m.statistics_.param.l)]
    ELSE {<<>>}

ImputeOutcomes(m, S) ==
    IF m.kind = "median" THEN {median_impute(m, S)}
    ELSE {random_impute(m, S, draw) : draw \in Draws(m, Len(Missing(S)))}

NoCall == [op |-> "none", impute_called |-> FALSE, kind |-> "none", err |-> "",
           v |-> NoValue]

Fit ==
    /\ ncalls < MaxCalls
    /\ \E S \in SeriesSet : \E out \in FitOutcomes(imp, S) :
          /\ imp' = out.imp
          /\ last' = [op |-> "fit", impute_called |-> FALSE, kind |-> out.kind,
                      err |-> out.err, v |-> out.v]
          /\ fit_done' = (fit_done \/ out.kind = "return")
          /\ fit_raised' = (fit_raised \/ out.kind = "raise")
    /\ ncalls' = ncalls + 1
    /\ UNCHANGED <<baseVars, resolverVars>>

Impute ==
    /\ ncalls < MaxCalls
    /\ \E S \in SeriesSet : \E out \in ImputeOutcomes(imp, S) :
          /\ imp' = out.imp
          /\ last' = [op |-> "impute", impute_called |-> TRUE, kind |-> out.kind,
                      err |-> out.err, v |-> out.v]
    /\ ncalls' = ncalls + 1
    /\ UNCHANGED <<baseVars, resolverVars, fit_done, fit_raised>>

\* self.fit(X).impute(X): impute is reached when fit returned
FitImpute ==
    /\ ncalls < MaxCalls
    /\ \E S \in SeriesSet : \E f \in FitOutcomes(imp, S) :
          IF f.kind = "raise"
          THEN /\ imp' = f.imp
               /\ last' = [op |-> "fit_impute", impute_called |-> FALSE,
                           kind |-> f.kind, err |-> f.err, v |-> f.v]
               /\ fit_raised' = TRUE
               /\ UNCHANGED fit_done
          ELSE \E out \in ImputeOutcomes(f.imp, S) :
                  /\ imp' = out.imp
                  /\ last' = [op |-> "fit_impute", impute_called |-> TRUE,
                              kind |-> out.kind, err |-> out.err, v |-> out.v]
                  /\ fit_done' = TRUE
                  /\ UNCHANGED fit_raised
    /\ ncalls' = ncalls + 1
    /\ UNCHANGED <<baseVars, resolverVars>>

-----------------------------------------------------------------------------
(* Specifications. *)

NoDataset == [index |-> <<>>, columns |-> <<>>]

BaseIdle == X = NoDataset /\ self = Unprepared /\ pc = "new" /\ ret = NoRet
ResolverIdle == cols = <<>> /\ arg = PyNone /\ res = NoRes
ImputerIdle ==
    /\ imp = NewImputer("median") /\ last = NoCall /\ ncalls = 0
    /\ fit_done = FALSE /\ fit_raised = FALSE

\* a BaseImputer is given a dataset: prepared, optionally scaled, then design
\* matrices are assembled
Init ==
    /\ X \in Datasets(MaxCols, MaxRows)
    /\ self = Unprepared
    /\ pc = "new"
    /\ ret = NoRet
    /\ ResolverIdle
    /\ ImputerIdle

Next ==
    \/ PrepFitDataframe
    \/ ScalerFitTransform
    \/ PrepPredictorColsAll
    \/ PrepPredictorColsIter

Spec == Init /\ [][Next]_vars

\* a resolver is called with a column list and a caller's spec
InitResolver ==
    /\ cols \in DistinctSeqs(ColNames, 1, MaxCols)
    /\ arg = PyNone
    /\ res = NoRes
    /\ BaseIdle
    /\ ImputerIdle

NextResolver ==
    \/ CheckStrategyFit
    \/ CheckPredictorsFit

SpecResolver == InitResolver /\ [][NextResolver]_vars

\* a series imputer is created and fit / impute / fit_impute are called on it
InitImputer ==
    /\ imp \in {NewImputer("median"), NewImputer("random")}
    /\ last = NoCall
    /\ ncalls = 0
    /\ fit_done = FALSE
    /\ fit_raised = FALSE
    /\ BaseIdle
    /\ ResolverIdle

NextImputer ==
    \/ Fit
    \/ Impute
    \/ FitImpute

SpecImputer == InitImputer /\ [][NextImputer]_vars


-----------------------------------------------------------------------------
(* Properties of the resolvers, checked under SpecResolver. *)

AcceptedShapes == {"str", "list", "tuple", "dict"}

\* C1: whenever check_predictors_fit accepts a string, list / tuple or dict,
\* the mapping it returns has an entry for every column of cols; given a
\* dict, every supplied key keeps its supplied value and every column the
\* dict left out maps to "all".
C1_PredictorsCoverEveryColumn ==
    (res.op = "check_predictors_fit" /\ res.kind = "return"
        /\ res.given.t \in AcceptedShapes) =>
    /\ IsDict(res.v)
    /\ \A c \in Range(cols) : c \in Keys(res.v)
    /\ IsDict(res.given) =>
          /\ \A it \in res.given.d : Get(res.v, it.k) = it.val
          /\ \A c \in Range(cols) \ Keys(res.given) : Get(res.v, c) = PyStr("all")

\* {A: [B]} on the columns A, A_b, B resolved to {A: [B], A_b: "all", B: "all"}
C1_Witness ==
    /\ res.op = "check_predictors_fit" /\ res.kind = "return"
    /\ cols = <<"A", "A_b", "B">>
    /\ res.given = PyDict({[k |-> "A", val |-> PySeq("list", <<"B">>)]})
    /\ res.v = PyDict({[k |-> "A", val |-> PySeq("list", <<"B">>)],
                       [k |-> "A_b", val |-> PyStr("all")],
                       [k |-> "B", val |-> PyStr("all")]})

\* C5: check_strategy_fit given a dict whose keys are all columns returns a
\* mapping with exactly the supplied keys and values (no column is added);
\* given a dict with a key that is no column it raises.
C5_StrategyDictAsSupplied ==
    (res.op = "check_strategy_fit" /\ IsDict(res.given)) =>
        IF Keys(res.given) \subseteq Range(cols)
        THEN /\ res.kind = "return"
             /\ IsDict(res.v)
             /\ Keys(res.v) = Keys(res.given)
             /\ \A it \in res.given.d : Get(res.v, it.k) = it.val
        ELSE res.kind = "raise"

\* a dict naming one of three columns came back with that one key
C5_Witness ==
    /\ res.op = "check_strategy_fit" /\ res.kind = "return"
    /\ Len(cols) = 3
    /\ res.given = PyDict({[k |-> "B", val |-> PyStr("median")]})
    /\ Keys(res.v) = {"B"}

LengthMismatch == "ValueError: Length of columns not equal to number of strategies"

\* C6: check_strategy_fit given a string maps every column to that string;
\* given a list or tuple it raises the length-mismatch error when the length
\* differs from the number of columns, and otherwise maps the i-th column to
\* the i-th element.
C6_StrategyStringAndSequence ==
    (res.op = "check_strategy_fit") =>
    /\ IsStr(res.given) =>
          /\ res.kind = "return" /\ IsDict(res.v)
          /\ Keys(res.v) = Range(cols)
          /\ \A c \in Range(cols) : Get(res.v, c) = res.given
    /\ IsListOrTuple(res.given) =>
          IF Len(res.given.l) # Len(cols)
          THEN res.kind = "raise" /\ res.err = LengthMismatch
          ELSE /\ res.kind = "return" /\ IsDict(res.v)
               /\ Keys(res.v) = Range(cols)
               /\ \A i \in DOMAIN cols : Get(res.v, cols[i]) = PyStr(res.given.l[i])

\* three columns, three strategies that are not all the same, mapped by position
C6_Witness ==
    /\ res.op = "check_strategy_fit" /\ res.kind = "return"
    /\ cols = <<"B", "A", "A_b">>
    /\ res.given = PySeq("list", <<"mean", "median", "mean">>)
    /\ Get(res.v, "A") = PyStr("median")

\* C7: check_predictors_fit raises a TypeError for every spec that is not a
\* string, a list / tuple or a dict; it never returns for such an input.
C7_OtherTypesRaiseTypeError ==
    (res.op = "check_predictors_fit" /\ res.given.t \notin AcceptedShapes) =>
        (res.kind = "raise" /\ res.err = "TypeError")

-----------------------------------------------------------------------------
(* Properties of the series imputers, checked under SpecImputer. *)

\* C8: whenever impute is called on a MedianImputer or RandomImputer (directly
\* or from fit_impute), it raises NotFittedError exactly when no fit has
\* completed on that instance before; a fit that raised does not count.
C8_UnfittedExactlyBeforeFirstFit ==
    last.impute_called =>
        ((last.kind = "raise" /\ last.err = "NotFittedError") <=> ~fit_done)

\* a fit raised, none completed, and the impute that followed found the
\* imputer unfitted
C8_Witness ==
    /\ fit_raised /\ ~fit_done
    /\ last.op = "impute" /\ last.kind = "raise" /\ last.err = "NotFittedError"


-----------------------------------------------------------------------------
(* Properties of fit preparation and predictor assembly, checked under Spec. *)

\* the dataset column of that name, its position and its dtype
ColumnNamed(n) == CHOOSE col \in Range(X.columns) : col.name = n
Pos(n) == CHOOSE i \in DOMAIN X.columns : X.columns[i].name = n

\* numeric block, then dummy block, then datetime block
BlockRank(n) ==
    CASE ColumnNamed(n).dtype = "number" -> 1
      [] ColumnNamed(n).dtype = "datetime" -> 3
      [] OTHER -> 2

\* C2: the design matrix _prep_predictor_cols returns for a target column c
\* holds neither c's own numeric column nor any indicator column of c's own
\* dummy group, whatever the resolved predictor entry.
C2_NoOwnColumn ==
    ret.kind = "return" =>
        \A i \in DOMAIN ret.x.columns :
            ret.x.columns[i].orig = ret.c =>
                ColumnNamed(ret.c).dtype \notin {"number", "object"}

\* C3: the columns of a returned design matrix are the numeric block, then
\* the dummy block, then the datetime block, each in the dataset's column
\* declaration order.
C3_BlockAndDeclarationOrder ==
    ret.kind = "return" =>
        \A i, j \in DOMAIN ret.x.columns :
            i < j =>
                LET a == ret.x.columns[i].orig
                    b == ret.x.columns[j].orig
                IN  \/ BlockRank(a) < BlockRank(b)
                    \/ BlockRank(a) = BlockRank(b) /\ Pos(a) <= Pos(b)

\* C4: after _prep_fit_dataframe every column of the dataset is in exactly
\* one of _cols_num, _orig_dum and _cols_time, and a column that is neither
\* numeric nor datetime is in _orig_dum.
C4_GroupsPartitionColumns ==
    pc # "new" =>
        \A n \in Range(Names(X)) :
            /\ Cardinality({g \in {"num", "dum", "time"} :
                  \/ g = "num" /\ InSeq(n, self._cols_num)
                  \/ g = "dum" /\ InSeq(n, self._orig_dum)
                  \/ g = "time" /\ InSeq(n, self._cols_time)}) = 1
            /\ ColumnNamed(n).dtype \notin {"number", "datetime"}
                  => InSeq(n, self._orig_dum)

NeedPredictor == "ValueError: Need at least one predictor column"

\* C9: _prep_predictor_cols raises the 'need at least one predictor column'
\* error exactly when the selected numeric, dummy and datetime blocks hold no
\* column between them; otherwise it returns a design matrix with every
\* selected column, paired with the target's missingness vector.
C9_FailsExactlyWithoutPredictors ==
    ret.kind # "none" =>
        LET selected == ret.num.columns \o ret.dum.columns \o ret.time.columns
        IN  /\ (ret.kind = "raise" /\ ret.err = NeedPredictor) <=> selected = <<>>
            /\ selected # <<>> =>
                  /\ ret.kind = "return"
                  /\ ret.x.columns = selected
                  /\ ret.y = [name |-> ret.c, index |-> self.data_mi.index]

\* C10: after fit preparation, with or without _scaler_fit_transform, the
\* missingness mask, every block that holds columns, and every design matrix
\* and target vector returned carry the dataset's row index.
C10_RowIndexPreserved ==
    pc # "new" =>
        /\ self.data_mi.index = X.index
        /\ \A df \in {self._data_num, self._data_dum, self._data_time} :
              df.columns # <<>> => df.index = X.index
        /\ ret.kind = "return" => (ret.x.index = X.index /\ ret.y.index = X.index)

\* C11: when _prep_predictor_cols assembles the design matrix for a target
\* column c, c is never one of the columns of the datetime block, and so never
\* a datetime column of the design matrix, whatever the resolved entry for c.
C11_TargetNotInTimeBlock ==
    ret.kind # "none" =>
        /\ \A i \in DOMAIN ret.time.columns : ret.time.columns[i].orig # ret.c
        /\ ret.kind = "return" =>
              \A i \in DOMAIN ret.x.columns :
                  (ret.x.columns[i].orig = ret.c)
                      => ColumnNamed(ret.c).dtype # "datetime"

\* C12: check_predictors_fit leaves the caller's predictor spec as it was
\* given; for a mapping that omits some columns the caller's mapping keeps
\* exactly its keys and values, and the fully covered mapping that is returned
\* is a new value, not the caller's object.
C12_CallerSpecUnchanged ==
    res.op = "check_predictors_fit" =>
        /\ arg = res.given
        /\ (IsDict(res.given) /\ res.kind = "return"
                /\ Range(cols) \ Keys(res.given) # {})
              => (~res.alias /\ res.v # res.given)

=============================================================================
